---- MODULE Spec2Model ----
(***************************************************************************)
(* State-machine model of lib/asset/AssetGenerator.js (webpack).           *)
(*                                                                         *)
(* Conventions.  JavaScript values that may be undefined, a boolean or a   *)
(* string are tagged records ([type |-> "undefined"], [type |-> "string",  *)
(* val |-> ...], ...).  Text is a sequence of one-character strings, and   *)
(* is joined into a TLA+ string where it is stored or reported; content    *)
(* of a module is a sequence of bytes or of UTF-16 code units.  An object  *)
(* whose fields may be unset (the buildInfo of the module) is a function   *)
(* whose DOMAIN holds the fields that are set.                             *)
(***************************************************************************)
EXTENDS Integers, Sequences, FiniteSets

VARIABLES
    module,           \* the NormalModule: resource, matchResource, originalSource, buildInfo
    this,             \* the AssetGenerator: dataUrlOptions, filename
    runtimeTemplate,  \* the RuntimeTemplate: outputOptions, supportsConst
    pc,               \* position inside generate: "idle", "path" (before line 155), "emit" (before line 170)
    call,             \* the generate call in progress: its context and its locals
    result,           \* the last operation: its inputs and its outcome
    writes,           \* number of assignments made so far to each buildInfo field
    outputsSeen       \* what Resource-mode calls recorded in buildInfo, with their inputs

vars == <<module, this, runtimeTemplate, pc, call, result, writes, outputsSeen>>

(***************************************************************************)
(* Bounds of the model.                                                    *)
(***************************************************************************)
MaxLen == 2        \* longest module content, in bytes / UTF-16 code units
MaxWrites == 2     \* Resource-mode generate calls followed in one behaviour

(***************************************************************************)
(* JavaScript values.                                                      *)
(***************************************************************************)
Undefined == [type |-> "undefined"]
Str(s) == [type |-> "string", val |-> s]
Bool(b) == [type |-> "boolean", val |-> b]

\* ToBoolean, as used by ||, if (x) and x ? a : b
Truthy(v) ==
    CASE v.type = "undefined" -> FALSE
      [] v.type = "boolean" -> v.val
      [] v.type = "string" -> Len(v.val) > 0
      [] OTHER -> TRUE

\* a || b
Or(a, b) == IF Truthy(a) THEN a ELSE b

\* obj.key = val
SetField(obj, key, val) ==
    [k \in DOMAIN obj \cup {key} |-> IF k = key THEN val ELSE obj[k]]

RECURSIVE Join(_)
\* concatenation of a sequence of strings
Join(ss) == IF ss = <<>> THEN "" ELSE Head(ss) \o Join(Tail(ss))

RECURSIVE SeqsUpTo(_, _)
\* all sequences over S of length at most n
SeqsUpTo(S, n) ==
    IF n = 0 THEN {<<>>}
    ELSE LET shorter == SeqsUpTo(S, n - 1)
         IN shorter \cup {Append(s, x) : s \in shorter, x \in S}

(***************************************************************************)
(* Text encodings used by the DataUrl branch.                              *)
(***************************************************************************)
\* the base64 alphabet, value v at index v + 1
Base64Alphabet ==
    <<"A", "B", "C", "D", "E", "F", "G", "H", "I", "J", "K", "L", "M", "N", "O", "P",
      "Q", "R", "S", "T", "U", "V", "W", "X", "Y", "Z", "a", "b", "c", "d", "e", "f",
      "g", "h", "i", "j", "k", "l", "m", "n", "o", "p", "q", "r", "s", "t", "u", "v",
      "w", "x", "y", "z", "0", "1", "2", "3", "4", "5", "6", "7", "8", "9", "+", "/">>

\* the printable ASCII characters, code point c at index c - 31 (the grave
\* accent, 96, which encodeURI always escapes, is left empty)
AsciiChars ==
    <<" ", "!", "\"", "#", "$", "%", "&", "'", "(", ")", "*", "+", ",", "-", ".", "/",
      "0", "1", "2", "3", "4", "5", "6", "7", "8", "9", ":", ";", "<", "=", ">", "?",
      "@", "A", "B", "C", "D", "E", "F", "G", "H", "I", "J", "K", "L", "M", "N", "O",
      "P", "Q", "R", "S", "T", "U", "V", "W", "X", "Y", "Z", "[", "\\", "]", "^", "_",
      "",  "a", "b", "c", "d", "e", "f", "g", "h", "i", "j", "k", "l", "m", "n", "o",
      "p", "q", "r", "s", "t", "u", "v", "w", "x", "y", "z", "{", "|", "}", "~">>

HexUpper == <<"0", "1", "2", "3", "4", "5", "6", "7", "8", "9", "A", "B", "C", "D", "E", "F">>
HexLower == <<"0", "1", "2", "3", "4", "5", "6", "7", "8", "9", "a", "b", "c", "d", "e", "f">>

RECURSIVE Base64(_)
\* Buffer.prototype.toString("base64"): 3 bytes become 4 characters, "=" pads the tail
Base64(bytes) ==
    LET n == Len(bytes)
        c(v) == <<Base64Alphabet[v + 1]>>
    IN  IF n = 0 THEN <<>>
        ELSE IF n = 1 THEN
            c(bytes[1] \div 4) \o c((bytes[1] % 4) * 16) \o <<"=", "=">>
        ELSE IF n = 2 THEN
            c(bytes[1] \div 4) \o c(((bytes[1] % 4) * 16) + (bytes[2] \div 16))
                \o c((bytes[2] % 16) * 4) \o <<"=">>
        ELSE
            c(bytes[1] \div 4) \o c(((bytes[1] % 4) * 16) + (bytes[2] \div 16))
                \o c(((bytes[2] % 16) * 4) + (bytes[3] \div 64)) \o c(bytes[3] % 64)
                \o Base64(SubSeq(bytes, 4, n))

IsHighSurrogate(u) == u >= 55296 /\ u <= 56319
IsLowSurrogate(u) == u >= 56320 /\ u <= 57343

\* UTF-8 encoding of one code point
Utf8OfCodePoint(cp) ==
    IF cp < 128 THEN <<cp>>
    ELSE IF cp < 2048 THEN <<192 + (cp \div 64), 128 + (cp % 64)>>
    ELSE IF cp < 65536 THEN
        <<224 + (cp \div 4096), 128 + ((cp \div 64) % 64), 128 + (cp % 64)>>
    ELSE <<240 + (cp \div 262144), 128 + ((cp \div 4096) % 64),
           128 + ((cp \div 64) % 64), 128 + (cp % 64)>>

RECURSIVE Utf8Encode(_)
\* Buffer.from(string, "utf-8"): a surrogate pair is one code point, a lone
\* surrogate is encoded as U+FFFD
Utf8Encode(units) ==
    IF units = <<>> THEN <<>>
    ELSE LET u == units[1]
             n == Len(units)
         IN  IF IsHighSurrogate(u) /\ n >= 2 /\ IsLowSurrogate(units[2]) THEN
                 Utf8OfCodePoint(65536 + ((u - 55296) * 1024) + (units[2] - 56320))
                     \o Utf8Encode(SubSeq(units, 3, n))
             ELSE IF IsHighSurrogate(u) \/ IsLowSurrogate(u) THEN
                 Utf8OfCodePoint(65533) \o Utf8Encode(Tail(units))
             ELSE Utf8OfCodePoint(u) \o Utf8Encode(Tail(units))

RECURSIVE Utf8Decode(_)
\* Buffer.prototype.toString("utf-8") for bytes below 0xE0: a one-byte or a
\* well-formed two-byte sequence is its code point, any other byte is U+FFFD
Utf8Decode(bytes) ==
    IF bytes = <<>> THEN <<>>
    ELSE LET b == bytes[1]
             n == Len(bytes)
         IN  IF b < 128 THEN <<b>> \o Utf8Decode(Tail(bytes))
             ELSE IF b >= 194 /\ b <= 223 /\ n >= 2 /\ bytes[2] >= 128 /\ bytes[2] <= 191 THEN
                 <<((b - 192) * 64) + (bytes[2] - 128)>> \o Utf8Decode(SubSeq(bytes, 3, n))
             ELSE <<65533>> \o Utf8Decode(Tail(bytes))

\* the code points encodeURI leaves alone: letters, digits and the marks
\* ; / ? : @ & = + $ , # - _ . ! ~ * ( ) and the apostrophe
UriUnescaped(cp) ==
    \/ cp >= 48 /\ cp <= 57
    \/ cp >= 65 /\ cp <= 90
    \/ cp >= 97 /\ cp <= 122
    \/ cp \in {59, 47, 63, 58, 64, 38, 61, 43, 36, 44, 35, 45, 95, 46, 33, 126, 42, 39, 40, 41}

RECURSIVE PercentEncode(_)
\* "%XX" for every byte, upper-case hex
PercentEncode(bytes) ==
    IF bytes = <<>> THEN <<>>
    ELSE <<"%", HexUpper[(bytes[1] \div 16) + 1], HexUpper[(bytes[1] % 16) + 1]>>
             \o PercentEncode(Tail(bytes))

RECURSIVE EncodeURI(_)
\* encodeURI(string): [ok |-> TRUE, val |-> escaped] or, for a string holding a
\* lone surrogate, [ok |-> FALSE] (URIError)
EncodeURI(units) ==
    IF units = <<>> THEN [ok |-> TRUE, val |-> <<>>]
    ELSE LET u == units[1]
             n == Len(units)
             pair == IsHighSurrogate(u) /\ n >= 2 /\ IsLowSurrogate(units[2])
             rest == EncodeURI(IF pair THEN SubSeq(units, 3, n) ELSE Tail(units))
             head == IF pair THEN
                         PercentEncode(Utf8OfCodePoint(
                             65536 + ((u - 55296) * 1024) + (units[2] - 56320)))
                     ELSE IF UriUnescaped(u) THEN <<AsciiChars[u - 31]>>
                     ELSE PercentEncode(Utf8OfCodePoint(u))
         IN  IF ~pair /\ (IsHighSurrogate(u) \/ IsLowSurrogate(u)) THEN [ok |-> FALSE]
             ELSE IF ~rest.ok THEN [ok |-> FALSE]
             ELSE [ok |-> TRUE, val |-> head \o rest.val]

(***************************************************************************)
(* Paths, mimetypes and JSON.                                              *)
(***************************************************************************)
\* index of the last occurrence of ch in chars, 0 when there is none
LastIndexOf(chars, ch) ==
    LET hits == {i \in 1..Len(chars) : chars[i] = ch}
    IN  IF hits = {} THEN 0 ELSE CHOOSE i \in hits : \A j \in hits : j <= i

\* path.extname(p) for a POSIX path without trailing slash: from the last "."
\* of the last segment to the end; "" when there is none, when the segment
\* starts with that ".", or when the segment is ".."
Extname(p) ==
    LET n == Len(p)
        start == LastIndexOf(p, "/") + 1
        dot == LastIndexOf(p, ".")
    IN  IF dot < start THEN <<>>
        ELSE IF dot = start THEN <<>>
        ELSE IF p[start] = "." /\ dot = n /\ dot = start + 1 THEN <<>>
        ELSE SubSeq(p, dot, n)

\* the entries of the mime-types database for the extensions the model
\* meets, keyed by extension; "unknownext" and the empty extension have none
MimeDb ==
    [png |-> <<"i", "m", "a", "g", "e", "/", "p", "n", "g">>,
     txt |-> <<"t", "e", "x", "t", "/", "p", "l", "a", "i", "n">>,
     svg |-> <<"i", "m", "a", "g", "e", "/", "s", "v", "g", "+", "x", "m", "l">>,
     xyz |-> <<"c", "h", "e", "m", "i", "c", "a", "l", "/", "x", "-", "x", "y", "z">>,
     jpg |-> <<"i", "m", "a", "g", "e", "/", "j", "p", "e", "g">>,
     bin |-> <<"a", "p", "p", "l", "i", "c", "a", "t", "i", "o", "n", "/", "o", "c", "t", "e", "t", "-", "s", "t", "r", "e", "a", "m">>]

\* String.prototype.toLowerCase for text of printable ASCII
ToLowerCase(chars) ==
    [i \in 1..Len(chars) |->
        IF \E c \in 65..90 : AsciiChars[c - 31] = chars[i]
        THEN AsciiChars[(CHOOSE c \in 65..90 : AsciiChars[c - 31] = chars[i]) + 1]
        ELSE chars[i]]

\* mimeTypes.lookup(ext): the type of the lower-cased extension of "x." + ext,
\* false when it has none or the database does not list it
MimeLookup(ext) ==
    LET e == ToLowerCase(Extname(<<"x", ".">> \o ext))
        extension == IF e = <<>> THEN "" ELSE Join(Tail(e))
    IN  IF extension \in DOMAIN MimeDb THEN Str(MimeDb[extension]) ELSE Bool(FALSE)

RECURSIVE JsonEscape(_)
\* the characters JSON.stringify(string) puts between the quotes, for text of
\* printable ASCII: the double quote and the backslash are escaped
JsonEscape(chars) ==
    IF chars = <<>> THEN <<>>
    ELSE (IF chars[1] \in {"\"", "\\"} THEN <<"\\", chars[1]>> ELSE <<chars[1]>>)
             \o JsonEscape(Tail(chars))

\* JSON.stringify(string)
JsonStringify(chars) == <<"\"">> \o JsonEscape(chars) \o <<"\"">>

\* the characters a template literal puts for a value
TemplateChars(v) ==
    CASE v.type = "undefined" -> <<"u", "n", "d", "e", "f", "i", "n", "e", "d">>
      [] v.type = "boolean" -> (IF v.val THEN <<"t", "r", "u", "e">> ELSE <<"f", "a", "l", "s", "e">>)
      [] OTHER -> v.val

\* a === b
StrictEquals(a, b) == a.type = b.type /\ (a.type = "undefined" \/ a.val = b.val)

(***************************************************************************)
(* The module and the values generate reads from it.                       *)
(***************************************************************************)
\* originalSource.buffer(): the bytes of the content, the UTF-8 encoding of a
\* content held as a string
BufferOf(originalSource) ==
    IF originalSource.kind = "buffer" THEN originalSource.data
    ELSE Utf8Encode(originalSource.data)

\* module.matchResource || module.resource
ResourceOf(mod) == Or(mod.matchResource, mod.resource)

\* module.nameForCondition(): the identifier of the module
NameForCondition(mod) == ResourceOf(mod).val

(***************************************************************************)
(* DataUrl branch of generate.                                             *)
(***************************************************************************)
Base64Name == Str(<<"b", "a", "s", "e", "6", "4">>)

\* this.dataUrlOptions.call(null, source, {filename, module}) for the custom
\* encoder of the model, which answers a literal naming the file it was given
CustomDataUrl(source, info) == <<"d", "a", "t", "a", ":", "x", "-", "c", "u", "s", "t", "o", "m", ",">> \o info.filename.val

\* ResolveMimeType with the operands of || swapped
ResolveMimeType_LookupFirst(dataUrlOptions, ext) ==
    Or(MimeLookup(ext), dataUrlOptions.mimetype)

\* this.dataUrlOptions.mimetype || mimeTypes.lookup(ext)
ResolveMimeType(dataUrlOptions, ext) == Or(dataUrlOptions.mimetype, MimeLookup(ext))

MissingMimeTypeError(ext) ==
    [name |-> "Error",
     message |-> "DataUrl can't be generated automatically, because there is no mimetype for \""
                 \o Join(ext)
                 \o "\" in mimetype database. Either pass a mimetype via \"generator.mimetype\" or use type: \"asset/resource\" to create a resource file instead of a DataUrl"]

UnsupportedEncodingError(encoding) ==
    [name |-> "Error",
     message |-> "Unsupported encoding '" \o Join(TemplateChars(encoding)) \o "'"]

UriError == [name |-> "URIError", message |-> "URI malformed"]

\* EncodeContent whose default case encodes as base64 instead of throwing
EncodeContent_DefaultBase64(encoding, originalSource) ==
    IF StrictEquals(encoding, Bool(FALSE)) THEN
        LET text == IF originalSource.kind = "string" THEN originalSource.data
                    ELSE Utf8Decode(originalSource.data)
            escaped == EncodeURI(text)
        IN  IF escaped.ok THEN [ok |-> TRUE, val |-> escaped.val]
            ELSE [ok |-> FALSE, error |-> UriError]
    ELSE [ok |-> TRUE, val |-> Base64(BufferOf(originalSource))]

\* switch (encoding): the payload, or the error thrown
EncodeContent(encoding, originalSource) ==
    IF StrictEquals(encoding, Base64Name) THEN
        [ok |-> TRUE, val |-> Base64(BufferOf(originalSource))]
    ELSE IF StrictEquals(encoding, Bool(FALSE)) THEN
        LET content == originalSource
            text == IF content.kind = "string" THEN content.data
                    ELSE Utf8Decode(content.data)
            escaped == EncodeURI(text)
        IN  IF escaped.ok THEN [ok |-> TRUE, val |-> escaped.val]
            ELSE [ok |-> FALSE, error |-> UriError]
    ELSE [ok |-> FALSE, error |-> UnsupportedEncodingError(encoding)]

\* DataUrlLiteral that names the encoding whatever it is
DataUrlLiteral_AlwaysEncoding(mimeType, encoding, encodedContent) ==
    <<"d", "a", "t", "a", ":">> \o TemplateChars(mimeType)
        \o <<";">> \o TemplateChars(encoding) \o <<",">> \o encodedContent

\* the template literal data:<mimeType>[;<encoding>],<encodedContent>
DataUrlLiteral(mimeType, encoding, encodedContent) ==
    <<"d", "a", "t", "a", ":">> \o TemplateChars(mimeType)
        \o (IF Truthy(encoding) THEN <<";">> \o TemplateChars(encoding) ELSE <<>>)
        \o <<",">> \o encodedContent

\* encodedSource of the DataUrl branch: the literal, or the error thrown
EncodedSource(gen, mod) ==
    IF gen.dataUrlOptions.type = "function" THEN
        [ok |-> TRUE,
         val |-> CustomDataUrl(mod.originalSource, [filename |-> ResourceOf(mod)])]
    ELSE
        LET encoding == gen.dataUrlOptions.encoding
            ext == Extname(NameForCondition(mod))
            mimeType == ResolveMimeType(gen.dataUrlOptions, ext)
            encoded == EncodeContent(encoding, mod.originalSource)
        IN  IF ~Truthy(mimeType) THEN [ok |-> FALSE, error |-> MissingMimeTypeError(ext)]
            ELSE IF ~encoded.ok THEN [ok |-> FALSE, error |-> encoded.error]
            ELSE [ok |-> TRUE, val |-> DataUrlLiteral(mimeType, encoding, encoded.val)]

(***************************************************************************)
(* Collaborators of the Resource branch: the hash, the relative-path       *)
(* helper and the filename templating of the compilation.                  *)
(***************************************************************************)
\* the code point of a printable ASCII character
CodeOf(ch) == 31 + CHOOSE i \in 1..Len(AsciiChars) : AsciiChars[i] = ch

\* the bytes of a text of printable ASCII
AsciiBytes(chars) == [i \in 1..Len(chars) |-> CodeOf(chars[i])]

RECURSIVE HashFold(_, _, _)
\* the running 16-bit value of the hash after the bytes
HashFold(h, mult, bytes) ==
    IF bytes = <<>> THEN h
    ELSE HashFold(((h * mult) + bytes[1] + 1) % 65536, mult, Tail(bytes))

\* createHash(algorithm): an incremental hash, here a 16-bit polynomial hash
\* whose multiplier depends on the algorithm
CreateHash(algorithm) == [algorithm |-> algorithm, data |-> <<>>]

\* hash.update(data)
HashUpdate(hash, bytes) == [hash EXCEPT !.data = @ \o bytes]

\* hash.digest(encoding): the digest as text, four hex digits or the base64
\* of the two bytes
HashDigest(hash, encoding) ==
    LET h == HashFold(IF hash.algorithm = "md4" THEN 7 ELSE 11,
                      IF hash.algorithm = "md4" THEN 31 ELSE 33, hash.data)
    IN  IF encoding = "base64" THEN Base64(<<h \div 256, h % 256>>)
        ELSE <<HexLower[(h \div 4096) + 1], HexLower[((h \div 256) % 16) + 1],
               HexLower[((h \div 16) % 16) + 1], HexLower[(h % 16) + 1]>>

RECURSIVE Split(_, _)
\* String.prototype.split(sep) for a one-character separator
Split(chars, sep) ==
    LET hits == {i \in 1..Len(chars) : chars[i] = sep}
    IN  IF hits = {} THEN <<chars>>
        ELSE LET i == CHOOSE k \in hits : \A j \in hits : k <= j
             IN  <<SubSeq(chars, 1, i - 1)>> \o Split(SubSeq(chars, i + 1, Len(chars)), sep)

RECURSIVE JoinChars(_, _)
\* the segments joined by the separator
JoinChars(segments, sep) ==
    IF segments = <<>> THEN <<>>
    ELSE IF Len(segments) = 1 THEN segments[1]
    ELSE segments[1] \o <<sep>> \o JoinChars(Tail(segments), sep)

\* number of leading segments two paths share
CommonPrefixLen(a, b) ==
    LET same == {k \in 0..Len(a) : k <= Len(b) /\ \A i \in 1..k : a[i] = b[i]}
    IN  CHOOSE k \in same : \A j \in same : j <= k

\* makePathsRelative(context, identifier, root): the identifier relative to
\* the context directory, starting with "./" unless it climbs with "../"
MakePathsRelative(context, identifier) ==
    LET c == Split(context, "/")
        r == Split(identifier, "/")
        k == CommonPrefixLen(c, r)
        ups == [i \in 1..(Len(c) - k) |-> <<".", ".">>]
        rel == JoinChars(ups \o SubSeq(r, k + 1, Len(r)), "/")
    IN  IF ups = <<>> THEN <<".", "/">> \o rel ELSE rel

RECURSIVE ReplaceAll(_, _, _)
\* every occurrence of pat in chars replaced by rep
ReplaceAll(chars, pat, rep) ==
    IF Len(chars) < Len(pat) THEN chars
    ELSE IF SubSeq(chars, 1, Len(pat)) = pat THEN
        rep \o ReplaceAll(SubSeq(chars, Len(pat) + 1, Len(chars)), pat, rep)
    ELSE <<chars[1]>> \o ReplaceAll(Tail(chars), pat, rep)

TemplateFailure == [name |-> "Error", message |-> "assetModuleFilename function failed"]

\* chunkGraph.getModuleId(module): the id the chunk graph gives the module
GetModuleId(chunkGraph, mod) == chunkGraph.moduleId

\* compilation.getAssetPathWithInfo(template, data).  A template given as a
\* function is called with the path data: the ones of the model throw or
\* name the file after the runtime of the call.  A template given as a
\* string is expanded: [hash] by the short content hash, [ext], [name] and
\* [file] from the relative file name, and [id] by the id the chunk graph of
\* the call gives the module; the asset info is made with it
GetAssetPathWithInfo(template, data) ==
    IF template.type = "function" THEN
        IF template.body = "throws" THEN [ok |-> FALSE, error |-> TemplateFailure]
        ELSE [ok |-> TRUE,
              path |-> data.runtime \o <<"/">> \o data.filename,
              info |-> [immutable |-> FALSE]]
    ELSE
        LET file == data.filename
            ext == Extname(file)
            base == SubSeq(file, LastIndexOf(file, "/") + 1, Len(file) - Len(ext))
            withHash == ReplaceAll(template.val, <<"[", "h", "a", "s", "h", "]">>, data.contentHash)
            withExt == ReplaceAll(withHash, <<"[", "e", "x", "t", "]">>, ext)
            withName == ReplaceAll(withExt, <<"[", "n", "a", "m", "e", "]">>, base)
            withFile == ReplaceAll(withName, <<"[", "f", "i", "l", "e", "]">>, file)
            withId == ReplaceAll(withFile, <<"[", "i", "d", "]">>,
                                 GetModuleId(data.chunkGraph, data.module))
        IN  [ok |-> TRUE,
             path |-> withId,
             info |-> [immutable |-> withHash # template.val]]

(***************************************************************************)
(* Resource branch of generate.                                            *)
(***************************************************************************)
\* this.compilation.compiler.context
CompilerContext == <<"/", "a", "p", "p">>

\* this.filename || runtimeTemplate.outputOptions.assetModuleFilename
AssetModuleFilename(gen, outputOptions) ==
    Or(gen.filename, outputOptions.assetModuleFilename)

\* HashInput that also feeds the hash the runtime of the call
HashInput_WithRuntime(context, outputOptions, mod) ==
    (IF Truthy(outputOptions.hashSalt) THEN AsciiBytes(outputOptions.hashSalt.val) ELSE <<>>)
        \o <<Len(context.runtime)>> \o BufferOf(mod.originalSource)

\* what the hash is fed: the salt when there is one, then the content bytes
HashInput(context, outputOptions, mod) ==
    (IF Truthy(outputOptions.hashSalt) THEN AsciiBytes(outputOptions.hashSalt.val) ELSE <<>>)
        \o BufferOf(mod.originalSource)

\* fullHash: the digest of the salted content
FullHash(context, outputOptions, mod) ==
    HashDigest(HashUpdate(CreateHash(outputOptions.hashFunction),
                          HashInput(context, outputOptions, mod)),
               outputOptions.hashDigest)

\* fullHash.slice(0, hashDigestLength)
ContentHash(fullHash, hashDigestLength) ==
    SubSeq(fullHash, 1, IF hashDigestLength < Len(fullHash) THEN hashDigestLength
                        ELSE Len(fullHash))

\* String.prototype.replace(/^\.\//, "")
StripDotSlash(chars) ==
    IF Len(chars) >= 2 /\ chars[1] = "." /\ chars[2] = "/" THEN SubSeq(chars, 3, Len(chars))
    ELSE chars

\* the path data handed to getAssetPathWithInfo
AssetPathData(context, mod, contentHash) ==
    [module |-> mod,
     runtime |-> context.runtime,
     filename |-> StripDotSlash(MakePathsRelative(CompilerContext, ResourceOf(mod).val)),
     chunkGraph |-> context.chunkGraph,
     contentHash |-> contentHash]

(***************************************************************************)
(* Binding the value into the generated code.                              *)
(***************************************************************************)
\* ConcatenationScope.NAMESPACE_OBJECT_EXPORT
NAMESPACE_OBJECT_EXPORT == <<"_", "_", "W", "E", "B", "P", "A", "C", "K", "_", "N", "A", "M", "E", "S", "P", "A", "C", "E", "_", "O", "B", "J", "E", "C", "T", "_", "_">>

\* RuntimeGlobals.module and RuntimeGlobals.publicPath
RuntimeGlobalsModule == <<"m", "o", "d", "u", "l", "e">>
RuntimeGlobalsPublicPath == <<"_", "_", "w", "e", "b", "p", "a", "c", "k", "_", "r", "e", "q", "u", "i", "r", "e", "_", "_", ".", "p">>

\* runtimeTemplate.declareConst(name, value)
DeclareConst(rt, name, value) ==
    (IF rt.supportsConst THEN <<"c", "o", "n", "s", "t", " ">> ELSE <<"v", "a", "r", " ">>) \o name \o <<" ", "=", " ">> \o value \o <<";">>

\* the export of the data url: what is registered, required and emitted
EmitDataUrl(context, rt, encodedSource) ==
    IF Truthy(context.concatenationScope) THEN
        [namespaceExports |-> {Join(NAMESPACE_OBJECT_EXPORT)},
         added |-> {},
         source |-> DeclareConst(rt, NAMESPACE_OBJECT_EXPORT, JsonStringify(encodedSource))]
    ELSE
        [namespaceExports |-> {},
         added |-> {Join(RuntimeGlobalsModule)},
         source |-> RuntimeGlobalsModule \o <<".", "e", "x", "p", "o", "r", "t", "s", " ", "=", " ">>
                        \o JsonStringify(encodedSource) \o <<";">>]

\* EmitResource that requires the module object before testing the scope
EmitResource_AlwaysModule(context, rt, filename) ==
    LET value == RuntimeGlobalsPublicPath \o <<" ", "+", " ">> \o JsonStringify(filename)
    IN  [namespaceExports |->
             IF Truthy(context.concatenationScope) THEN {Join(NAMESPACE_OBJECT_EXPORT)} ELSE {},
         added |-> {Join(RuntimeGlobalsPublicPath), Join(RuntimeGlobalsModule)},
         source |->
             IF Truthy(context.concatenationScope)
             THEN DeclareConst(rt, NAMESPACE_OBJECT_EXPORT, value)
             ELSE RuntimeGlobalsModule \o <<".", "e", "x", "p", "o", "r", "t", "s", " ", "=", " ">>
                      \o value \o <<";">>]

\* the export of the resource reference: what is registered, required and emitted
EmitResource(context, rt, filename) ==
    LET value == RuntimeGlobalsPublicPath \o <<" ", "+", " ">> \o JsonStringify(filename)
    IN  IF Truthy(context.concatenationScope) THEN
            [namespaceExports |-> {Join(NAMESPACE_OBJECT_EXPORT)},
             added |-> {Join(RuntimeGlobalsPublicPath)},
             source |-> DeclareConst(rt, NAMESPACE_OBJECT_EXPORT, value)]
        ELSE
            [namespaceExports |-> {},
             added |-> {Join(RuntimeGlobalsPublicPath), Join(RuntimeGlobalsModule)},
             source |-> RuntimeGlobalsModule \o <<".", "e", "x", "p", "o", "r", "t", "s", " ", "=", " ">> \o value \o <<";">>]

(***************************************************************************)
(* The oracles.                                                            *)
(***************************************************************************)
JS_TYPES == {"javascript"}
JS_AND_ASSET_TYPES == {"javascript", "asset"}

\* Mode with the "asset" case honoured only for modules that are not inlined
Mode_AssetUnlessInline(type, buildInfo) ==
    IF type = "asset" /\ ~buildInfo.dataUrl THEN "Asset"
    ELSE IF buildInfo.dataUrl THEN "DataUrl"
    ELSE "Resource"

\* Mode without the test of the dataUrl flag
Mode_IgnoresDataUrl(type, buildInfo) ==
    IF type = "asset" THEN "Asset" ELSE "Resource"

\* which branch generate takes
Mode(type, buildInfo) ==
    IF type = "asset" THEN "Asset"
    ELSE IF buildInfo.dataUrl THEN "DataUrl"
    ELSE "Resource"

\* getTypes answering the larger set for every module
GetTypesOf_AlwaysBoth(mod) == JS_AND_ASSET_TYPES

\* getTypes(module)
GetTypesOf(mod) == IF mod.buildInfo.dataUrl THEN JS_TYPES ELSE JS_AND_ASSET_TYPES

\* originalSource.size(): the number of bytes of the content
SizeOf(originalSource) == Len(BufferOf(originalSource))

\* getSize(module, type), in hundredths so that size * 1.34 + 36 is exact
GetSizeOf(mod, type) ==
    IF type = "asset" THEN
        IF mod.originalSource.kind = "null" THEN 0 ELSE SizeOf(mod.originalSource) * 100
    ELSE IF mod.buildInfo.dataUrl THEN
        IF mod.originalSource.kind = "null" THEN 0
        ELSE (SizeOf(mod.originalSource) * 134) + 3600
    ELSE 4200

\* the token updateHash feeds the hash
UpdateHashToken(mod) == IF mod.buildInfo.dataUrl THEN "data-url" ELSE "resource"

\* getConcatenationBailoutReason(module, context)
BailoutReasonOf(mod) ==
    IF ~mod.buildInfo.dataUrl THEN Str(<<"A", "s", "s", "e", "t", " ", "m", "o", "d", "u", "l", "e", " ", "e", "m", "i", "t", "s", " ", "a", "n", " ", "a", "s", "s", "e", "t">>) ELSE Undefined

(***************************************************************************)
(* The operations.                                                         *)
(***************************************************************************)
BuildInfoFields == {"filename", "assetInfo", "fullContentHash"}

\* the chunk graphs a caller passes: they give the module different ids
ChunkGraphs == {[moduleId |-> <<"7">>], [moduleId |-> <<"9">>]}

\* the generateContext values a caller passes; "webassembly" stands for a type
\* getTypes does not advertise, which the switch sends to its default case
Contexts ==
    [type : {"asset", "javascript", "webassembly"},
     runtime : {<<"m", "a", "i", "n">>, <<"w", "o", "r", "k", "e", "r">>},
     chunkGraph : ChunkGraphs,
     concatenationScope : {Undefined, [type |-> "object"]}]

\* the runtimeRequirements set a caller passes: a fresh Set
CallerRequirements == {{}}

RECURSIVE Assign(_, _)
\* the object after the assignments, made in order
Assign(obj, assignments) ==
    IF assignments = <<>> THEN obj
    ELSE Assign(SetField(obj, assignments[1].field, assignments[1].value), Tail(assignments))

\* the write counts after the assignments
Count(counts, assignments) ==
    [f \in DOMAIN counts |->
        counts[f] + Cardinality({i \in 1..Len(assignments) : assignments[i].field = f})]

\* module.buildInfo.fullContentHash = fullHash
HashStepAssignments(fullHash) ==
    <<[field |-> "fullContentHash", value |-> Join(fullHash)]>>

\* module.buildInfo.filename = filename
PathStepAssignments(resolved) ==
    <<[field |-> "filename", value |-> Join(resolved.path)]>>

\* EmitStepAssignments that stores the file name a second time
EmitStepAssignments_AlsoFilename(c) ==
    <<[field |-> "filename", value |-> Join(c.filename)],
      [field |-> "assetInfo", value |-> c.info]>>

\* module.buildInfo.assetInfo = info
EmitStepAssignments(c) ==
    <<[field |-> "assetInfo", value |-> c.info]>>

\* generate, case "asset": the original source is returned
GenerateAsset ==
    \E context \in Contexts, rr \in CallerRequirements :
        /\ pc = "idle"
        /\ Mode(context.type, module.buildInfo) = "Asset"
        /\ result' = [op |-> "generate", context |-> context, mode |-> "Asset",
                      status |-> "return", value |-> module.originalSource,
                      runtimeRequirements |-> rr, added |-> {}, namespaceExports |-> {}]
        /\ UNCHANGED <<module, this, runtimeTemplate, pc, call, writes, outputsSeen>>

\* generate, default case with module.buildInfo.dataUrl set
GenerateDataUrl ==
    \E context \in Contexts, rr \in CallerRequirements :
        /\ pc = "idle"
        /\ Mode(context.type, module.buildInfo) = "DataUrl"
        /\ LET encoded == EncodedSource(this, module)
               emitted == EmitDataUrl(context, runtimeTemplate, encoded.val)
           IN  result' =
                   IF encoded.ok THEN
                       [op |-> "generate", context |-> context, mode |-> "DataUrl",
                        status |-> "return", value |-> [rawSource |-> emitted.source],
                        encodedSource |-> encoded.val,
                        runtimeRequirements |-> rr \cup emitted.added,
                        added |-> emitted.added,
                        namespaceExports |-> emitted.namespaceExports]
                   ELSE
                       [op |-> "generate", context |-> context, mode |-> "DataUrl",
                        status |-> "throw", error |-> encoded.error,
                        runtimeRequirements |-> rr, added |-> {}, namespaceExports |-> {}]
        /\ UNCHANGED <<module, this, runtimeTemplate, pc, call, writes, outputsSeen>>

\* generate, default case without dataUrl, lines 140-154: the content is
\* hashed and the full hash is stored
GenerateResourceHash ==
    \E context \in Contexts, rr \in CallerRequirements :
        /\ pc = "idle"
        /\ Mode(context.type, module.buildInfo) = "Resource"
        /\ writes["fullContentHash"] < MaxWrites
        /\ LET outputOptions == runtimeTemplate.outputOptions
               fullHash == FullHash(context, outputOptions, module)
               stores == HashStepAssignments(fullHash)
           IN  /\ call' = [context |-> context,
                           runtimeRequirements |-> rr,
                           assetModuleFilename |-> AssetModuleFilename(this, outputOptions),
                           fullHash |-> fullHash,
                           contentHash |-> ContentHash(fullHash, outputOptions.hashDigestLength)]
               /\ module' = [module EXCEPT !.buildInfo = Assign(@, stores)]
               /\ writes' = Count(writes, stores)
        /\ pc' = "path"
        /\ result' = [op |-> "generate", context |-> context, mode |-> "Resource",
                      status |-> "running"]
        /\ UNCHANGED <<this, runtimeTemplate, outputsSeen>>

\* the answer of getAssetPathWithInfo for the call in progress
ResolvedPath ==
    GetAssetPathWithInfo(call.assetModuleFilename,
                         AssetPathData(call.context, module, call.contentHash))

\* lines 155-169: the file name is resolved and stored
GenerateResourcePath ==
    /\ pc = "path"
    /\ ResolvedPath.ok
    /\ LET stores == PathStepAssignments(ResolvedPath)
       IN  /\ module' = [module EXCEPT !.buildInfo = Assign(@, stores)]
           /\ writes' = Count(writes, stores)
    /\ call' = [context |-> call.context,
                runtimeRequirements |-> call.runtimeRequirements,
                filename |-> ResolvedPath.path,
                info |-> ResolvedPath.info]
    /\ outputsSeen' = outputsSeen \cup
           {[filename |-> module'.buildInfo["filename"],
             fullContentHash |-> module'.buildInfo["fullContentHash"],
             runtime |-> call.context.runtime,
             chunkGraph |-> call.context.chunkGraph,
             concatenationScope |-> call.context.concatenationScope.type,
             priorFilename |-> IF "filename" \in DOMAIN module.buildInfo
                               THEN module.buildInfo["filename"] ELSE ""]}
    /\ pc' = "emit"
    /\ UNCHANGED <<this, runtimeTemplate, result>>

\* lines 155-168, getAssetPathWithInfo throws: generate is left with the
\* error, after the full hash was stored
GenerateResourcePathThrows ==
    /\ pc = "path"
    /\ ~ResolvedPath.ok
    /\ result' = [op |-> "generate", context |-> call.context, mode |-> "Resource",
                  status |-> "throw", error |-> ResolvedPath.error,
                  runtimeRequirements |-> call.runtimeRequirements,
                  added |-> {}, namespaceExports |-> {}]
    /\ call' = <<>>
    /\ pc' = "idle"
    /\ UNCHANGED <<module, this, runtimeTemplate, writes, outputsSeen>>

\* lines 170-186: the asset info is stored and the reference is emitted
GenerateResourceEmit ==
    /\ pc = "emit"
    /\ LET stores == EmitStepAssignments(call)
           emitted == EmitResource(call.context, runtimeTemplate, call.filename)
       IN  /\ module' = [module EXCEPT !.buildInfo = Assign(@, stores)]
           /\ writes' = Count(writes, stores)
           /\ result' = [op |-> "generate", context |-> call.context, mode |-> "Resource",
                         status |-> "return", value |-> [rawSource |-> emitted.source],
                         runtimeRequirements |-> call.runtimeRequirements \cup emitted.added,
                         added |-> emitted.added,
                         namespaceExports |-> emitted.namespaceExports]
    /\ call' = <<>>
    /\ pc' = "idle"
    /\ UNCHANGED <<this, runtimeTemplate, outputsSeen>>

\* getTypes(module)
GetTypes ==
    /\ pc = "idle"
    /\ result' = [op |-> "getTypes", status |-> "return", value |-> GetTypesOf(module)]
    /\ UNCHANGED <<module, this, runtimeTemplate, pc, call, writes, outputsSeen>>

\* getSize(module, type)
GetSize ==
    \E type \in {"asset", "javascript"} :
        /\ pc = "idle"
        /\ result' = [op |-> "getSize", type |-> type, status |-> "return",
                      hundredths |-> GetSizeOf(module, type)]
        /\ UNCHANGED <<module, this, runtimeTemplate, pc, call, writes, outputsSeen>>

\* updateHash(hash, {module}), on a fresh hash of the caller
UpdateHash ==
    /\ pc = "idle"
    /\ result' = [op |-> "updateHash", status |-> "return",
                  hash |-> <<UpdateHashToken(module)>>]
    /\ UNCHANGED <<module, this, runtimeTemplate, pc, call, writes, outputsSeen>>

\* getConcatenationBailoutReason(module, context)
GetConcatenationBailoutReason ==
    /\ pc = "idle"
    /\ result' = [op |-> "getConcatenationBailoutReason", status |-> "return",
                  value |-> BailoutReasonOf(module)]
    /\ UNCHANGED <<module, this, runtimeTemplate, pc, call, writes, outputsSeen>>

Next ==
    \/ GenerateAsset
    \/ GenerateDataUrl
    \/ GenerateResourceHash
    \/ GenerateResourcePath
    \/ GenerateResourcePathThrows
    \/ GenerateResourceEmit
    \/ GetTypes
    \/ GetSize
    \/ UpdateHash
    \/ GetConcatenationBailoutReason

(***************************************************************************)
(* The inputs of the model and the specifications.                         *)
(***************************************************************************)
\* bytes of module contents: "A" and the two bytes of the UTF-8 form of U+00E9
ByteAlphabet == {65, 195, 169}
\* code units of module contents: "A", U+00E9 and a lone high surrogate
UnitAlphabet == {65, 233, 55296}

Buffers(n) == {[kind |-> "buffer", data |-> d] : d \in SeqsUpTo(ByteAlphabet, n)}
Strings(n) == {[kind |-> "string", data |-> d] : d \in SeqsUpTo(UnitAlphabet, n)}
SampleSources ==
    {[kind |-> "buffer", data |-> <<65, 195>>], [kind |-> "string", data |-> <<233>>]}

ResourcePng == Str(<<"/", "a", "p", "p", "/", "s", "r", "c", "/", "a", ".", "p", "n", "g">>)
\* an extension in upper case, one the database lists under a chemical type,
\* one the database does not list, and none
ResourceTxt == Str(<<"/", "a", "p", "p", "/", "b", ".", "T", "X", "T">>)
ResourceXyz == Str(<<"/", "l", "i", "b", "/", "m", ".", "x", "y", "z">>)
ResourceUnknown == Str(<<"/", "l", "i", "b", "/", "c", ".", "u", "n", "k", "n", "o", "w", "n", "e", "x", "t">>)
ResourceNoExt == Str(<<"/", "a", "p", "p", "/", "L", "I", "C", "E", "N", "S", "E">>)
MatchSvg == Str(<<"/", "a", "p", "p", "/", "m", ".", "s", "v", "g">>)

FunctionOptions == [type |-> "function"]
DeclarativeOptions ==
    [type : {"object"},
     encoding : {Base64Name, Bool(FALSE), Str(<<"g", "z", "i", "p">>), Undefined},
     mimetype : {Undefined, Str(<<>>), Str(<<"t", "e", "x", "t", "/", "x">>)}]
SampleOptions ==
    {FunctionOptions,
     [type |-> "object", encoding |-> Base64Name, mimetype |-> Undefined],
     [type |-> "object", encoding |-> Bool(FALSE), mimetype |-> Str(<<"t", "e", "x", "t", "/", "x">>)],
     [type |-> "object", encoding |-> Str(<<"g", "z", "i", "p">>), mimetype |-> Undefined]}

TemplateHashExt == Str(<<"[", "h", "a", "s", "h", "]", "[", "e", "x", "t", "]">>)
TemplateNamed == Str(<<"[", "n", "a", "m", "e", "]", ".", "[", "h", "a", "s", "h", "]", "[", "e", "x", "t", "]">>)
TemplateStatic == Str(<<"s", "t", "a", "t", "i", "c", "/", "[", "f", "i", "l", "e", "]">>)
TemplateId == Str(<<"[", "i", "d", "]", ".", "[", "h", "a", "s", "h", "]", "[", "e", "x", "t", "]">>)
TemplateFunction == [type |-> "function", body |-> "throws"]
TemplateByRuntime == [type |-> "function", body |-> "runtime"]

\* build-info fields a module carries over from an earlier build
StaleBuildInfo ==
    [dataUrl |-> FALSE, fullContentHash |-> "0000", filename |-> "old.bin",
     assetInfo |-> [immutable |-> FALSE]]

DefaultOutputOptions ==
    [assetModuleFilename |-> TemplateHashExt, hashFunction |-> "md4",
     hashSalt |-> Undefined, hashDigest |-> "hex", hashDigestLength |-> 20]
\* the default configuration and the ones that differ from it in one setting
OutputOptionsSet ==
    {DefaultOutputOptions,
     [DefaultOutputOptions EXCEPT !.assetModuleFilename = TemplateNamed],
     [DefaultOutputOptions EXCEPT !.hashFunction = "sha256"],
     [DefaultOutputOptions EXCEPT !.hashSalt = Str(<<"s">>)],
     [DefaultOutputOptions EXCEPT !.hashDigest = "base64"],
     [DefaultOutputOptions EXCEPT !.hashDigestLength = 3]}

\* the states after construction for the given choices of module, generator
\* and configuration; a generator without dataUrl options serves only
\* modules that are not inlined
InitOf(sources, resources, matches, infos, options, filenames, outputs) ==
    /\ module \in [resource : resources, matchResource : matches,
                   originalSource : sources,
                   buildInfo : infos]
    /\ this \in [dataUrlOptions : options, filename : filenames]
    /\ this.dataUrlOptions.type = "undefined" => ~module.buildInfo.dataUrl
    /\ runtimeTemplate \in [outputOptions : outputs, supportsConst : {TRUE}]
    /\ pc = "idle"
    /\ call = <<>>
    /\ result = [op |-> "none"]
    /\ writes = [f \in BuildInfoFields |-> 0]
    /\ outputsSeen = {}

\* the same for modules that were not generated before
InitWith(sources, resources, matches, flags, options, filenames, outputs) ==
    InitOf(sources, resources, matches, {[dataUrl |-> f] : f \in flags},
           options, filenames, outputs)

Init ==
    InitWith(SampleSources, {ResourcePng, ResourceUnknown}, {Undefined}, BOOLEAN,
             SampleOptions \cup {Undefined}, {Undefined},
             {DefaultOutputOptions,
              [DefaultOutputOptions EXCEPT !.assetModuleFilename = TemplateFunction]})

Spec == Init /\ [][Next]_vars

\* the DataUrl branch: every content and option of the model for a listed and
\* an unlisted extension, sample contents for the other names of the model
InitDataUrl ==
    \/ InitWith(Buffers(MaxLen) \cup Strings(MaxLen),
                {ResourcePng, ResourceUnknown},
                {Undefined}, {TRUE},
                DeclarativeOptions \cup {FunctionOptions}, {Undefined},
                {DefaultOutputOptions})
    \/ InitWith(SampleSources,
                {ResourceTxt, ResourceXyz, ResourceNoExt},
                {Undefined}, {TRUE},
                DeclarativeOptions \cup {FunctionOptions}, {Undefined},
                {DefaultOutputOptions})
    \/ InitWith(SampleSources,
                {ResourceUnknown}, {MatchSvg}, {TRUE},
                DeclarativeOptions \cup {FunctionOptions}, {Undefined},
                {DefaultOutputOptions})
    \/ InitWith(SampleSources, {ResourcePng}, {Undefined}, {FALSE},
                {Undefined}, {Undefined},
                {DefaultOutputOptions,
                 [DefaultOutputOptions EXCEPT !.assetModuleFilename = TemplateFunction]})

SpecDataUrl == InitDataUrl /\ [][Next]_vars

\* the Resource branch: every content of the model, the names and filename
\* overrides, and every configuration, for modules generated before or not
InitResource ==
    \/ InitWith({[kind |-> "buffer", data |-> d] : d \in SeqsUpTo({65, 195}, MaxLen)}
                     \cup {[kind |-> "string", data |-> <<233>>]},
                {ResourcePng}, {Undefined}, {FALSE},
                {Undefined}, {Undefined},
                {DefaultOutputOptions})
    \/ InitWith(SampleSources, {ResourcePng, ResourceUnknown},
                {Undefined, MatchSvg}, {FALSE},
                {Undefined}, {Undefined, TemplateStatic},
                {DefaultOutputOptions})
    \/ InitOf(SampleSources, {ResourcePng}, {Undefined},
              {[dataUrl |-> FALSE], StaleBuildInfo},
              {Undefined}, {Undefined},
              OutputOptionsSet \cup
                  {[DefaultOutputOptions EXCEPT !.assetModuleFilename = TemplateId],
                   [DefaultOutputOptions EXCEPT !.assetModuleFilename = TemplateByRuntime]})
    \/ InitWith(SampleSources, {ResourcePng}, {Undefined}, BOOLEAN,
                {FunctionOptions}, {Undefined},
                {[DefaultOutputOptions EXCEPT !.assetModuleFilename = TemplateFunction]})

SpecResource == InitResource /\ [][Next]_vars

(***************************************************************************)
(* Properties.                                                             *)
(***************************************************************************)
\* the build-info fields of the module that are set
FieldsSet == BuildInfoFields \cap DOMAIN module.buildInfo

\* the part of a buildInfo that generate may write
WrittenPart(buildInfo) ==
    [f \in BuildInfoFields \cap DOMAIN buildInfo |-> buildInfo[f]]

StartsWith(chars, prefix) ==
    Len(chars) >= Len(prefix) /\ SubSeq(chars, 1, Len(prefix)) = prefix

\* the last operation was a generate call that ran to its end
Generated == result.op = "generate" /\ result.status \in {"return", "throw"}

\* the last operation was a DataUrl-mode generate call with declarative options
DeclarativeDataUrlCall ==
    /\ Generated
    /\ result.context.type # "asset"
    /\ module.buildInfo.dataUrl
    /\ this.dataUrlOptions.type = "object"

\* the extension of the module and what the mimetype database has for it
ModuleExt == Extname(NameForCondition(module))
LookedUp == MimeLookup(ModuleExt)

\* the encoding option is neither "base64" nor false
EncodingOutsideSet ==
    /\ ~StrictEquals(this.dataUrlOptions.encoding, Base64Name)
    /\ ~StrictEquals(this.dataUrlOptions.encoding, Bool(FALSE))

RECURSIVE Base64Decode(_)
\* the bytes a base64 text stands for
Base64Decode(chars) ==
    IF Len(chars) < 4 THEN <<>>
    ELSE LET v(i) == (CHOOSE k \in 1..64 : Base64Alphabet[k] = chars[i]) - 1
             rest == Base64Decode(SubSeq(chars, 5, Len(chars)))
         IN  IF chars[3] = "=" THEN <<(v(1) * 4) + (v(2) \div 16)>>
             ELSE IF chars[4] = "=" THEN
                 <<(v(1) * 4) + (v(2) \div 16), ((v(2) % 16) * 16) + (v(3) \div 4)>>
             ELSE <<(v(1) * 4) + (v(2) \div 16), ((v(2) % 16) * 16) + (v(3) \div 4),
                    ((v(3) % 4) * 64) + v(4)>> \o rest

RECURSIVE PercentDecode(_)
\* the bytes a URI-escaped text of ASCII characters stands for
PercentDecode(chars) ==
    IF chars = <<>> THEN <<>>
    ELSE IF chars[1] = "%" THEN
        LET h(i) == (CHOOSE k \in 1..16 : HexUpper[k] = chars[i]) - 1
        IN  <<(h(2) * 16) + h(3)>> \o PercentDecode(SubSeq(chars, 4, Len(chars)))
    ELSE <<CodeOf(chars[1])>> \o PercentDecode(Tail(chars))

\* C1: the three build-info fields are all unset or all set, in every state
C1_AllOrNone == FieldsSet \in {{}, BuildInfoFields}

C3_Original ==
    (DeclarativeDataUrlCall /\ EncodingOutsideSet) =>
        /\ result.status = "throw"
        /\ result.error = UnsupportedEncodingError(this.dataUrlOptions.encoding)
\* C3 amended: an encoding outside {"base64", false} fails with the
\* unsupported-encoding error naming it when a mimetype resolves, and with the
\* missing-mimetype error when none does
C3_UnsupportedEncoding ==
    (DeclarativeDataUrlCall /\ EncodingOutsideSet) =>
        /\ result.status = "throw"
        /\ result.error =
               IF Truthy(this.dataUrlOptions.mimetype) \/ Truthy(LookedUp)
               THEN UnsupportedEncodingError(this.dataUrlOptions.encoding)
               ELSE MissingMimeTypeError(ModuleExt)
C3_Witness ==
    /\ DeclarativeDataUrlCall
    /\ this.dataUrlOptions.encoding = Str(<<"g", "z", "i", "p">>)
    /\ result.status = "throw"
    /\ result.error.message = "Unsupported encoding 'gzip'"

\* C4: the missing-mimetype error naming the extension is raised exactly when
\* no (non-empty) mimetype override is given and the lookup finds nothing, and
\* a given override is the mimetype of the literal whatever the lookup finds
C4_MissingMimeType ==
    DeclarativeDataUrlCall =>
        /\ (result.status = "throw" /\ result.error = MissingMimeTypeError(ModuleExt))
               <=> (~Truthy(this.dataUrlOptions.mimetype) /\ ~Truthy(LookedUp))
        /\ (result.status = "return" /\ Truthy(this.dataUrlOptions.mimetype)) =>
               \E mark \in {";", ","} :
                   StartsWith(result.encodedSource,
                              <<"d", "a", "t", "a", ":">> \o this.dataUrlOptions.mimetype.val
                                  \o <<mark>>)
C4_Witness ==
    /\ DeclarativeDataUrlCall
    /\ ~Truthy(this.dataUrlOptions.mimetype)
    /\ ModuleExt = <<".", "u", "n", "k", "n", "o", "w", "n", "e", "x", "t">>
    /\ result.status = "throw"
    /\ result.error = MissingMimeTypeError(ModuleExt)

\* C5: the literal of a successful declarative call is "data:", the resolved
\* mimetype, ";base64" exactly for the encoding "base64", "," and the payload;
\* the payload decodes to the raw bytes (base64) or to the text (URI escaping)
C5_DataUrlLiteral ==
    (DeclarativeDataUrlCall /\ result.status = "return") =>
        LET base64 == StrictEquals(this.dataUrlOptions.encoding, Base64Name)
            mimeType == IF Truthy(this.dataUrlOptions.mimetype)
                        THEN this.dataUrlOptions.mimetype.val ELSE LookedUp.val
            head == <<"d", "a", "t", "a", ":">> \o mimeType
                        \o (IF base64 THEN <<";", "b", "a", "s", "e", "6", "4">> ELSE <<>>)
                        \o <<",">>
            literal == result.encodedSource
            payload == SubSeq(literal, Len(head) + 1, Len(literal))
            content == module.originalSource
            text == IF content.kind = "string" THEN content.data ELSE Utf8Decode(content.data)
        IN  /\ StartsWith(literal, head)
            /\ base64 => /\ payload = Base64(BufferOf(content))
                         /\ Base64Decode(payload) = BufferOf(content)
            /\ ~base64 => /\ StrictEquals(this.dataUrlOptions.encoding, Bool(FALSE))
                          /\ payload = EncodeURI(text).val
                          /\ PercentDecode(payload) = Utf8Encode(text)
C5_Witness ==
    /\ DeclarativeDataUrlCall
    /\ result.status = "return"
    /\ StrictEquals(this.dataUrlOptions.encoding, Bool(FALSE))
    /\ module.originalSource = [kind |-> "buffer", data |-> <<195, 169>>]
    /\ Join(result.encodedSource) = "data:image/png,%C3%A9"

\* the template of the module is a string made of text and of the tokens that
\* stand for the short content hash and the relative file name
ReadsHashAndPathOnly ==
    LET template == AssetModuleFilename(this, runtimeTemplate.outputOptions)
    IN  /\ template.type = "string"
        /\ ReplaceAll(template.val, <<"[", "i", "d", "]">>, <<>>) = template.val

C7_GetTypes ==
    LET expected == IF module.buildInfo.dataUrl THEN {"javascript"}
                    ELSE {"javascript", "asset"}
    IN  /\ GetTypesOf(module) = expected
        /\ result.op = "getTypes" => result.value = expected
C7_Witness ==
    /\ result.op = "getTypes"
    /\ result.value = {"javascript", "asset"}
    /\ FieldsSet = BuildInfoFields

\* C8 as stated: each build-info field is written at most once
C8_Original == \A f \in BuildInfoFields : writes[f] <= 1
\* C8 amended: a Resource-mode call writes each field once, at its own step of
\* the call (the full hash on entry, the file name after the path is
\* resolved, the asset info before the code is emitted); later calls write them again
C8_OncePerCall ==
    [][/\ \A f \in BuildInfoFields : writes'[f] \in {writes[f], writes[f] + 1}
       /\ writes'["fullContentHash"] # writes["fullContentHash"] => pc = "idle" /\ pc' = "path"
       /\ writes'["filename"] # writes["filename"] => pc = "path" /\ pc' = "emit"
       /\ writes'["assetInfo"] # writes["assetInfo"] => pc = "emit" /\ pc' = "idle"]_vars
C8_Witness ==
    /\ pc = "idle"
    /\ \A f \in BuildInfoFields : writes[f] = 2

\* C9: of a successful call for code, the module requirement and the
\* assignment come exactly without a concatenation scope, the namespace export
\* and the declaration exactly with one, the public path requirement exactly
\* in Resource mode; a call for "asset" adds no requirement
C9_Requirements ==
    (Generated /\ result.status = "return") =>
        IF result.context.type = "asset" THEN result.added = {}
        ELSE
            LET scope == result.context.concatenationScope.type # "undefined"
                source == result.value.rawSource
                assignment == StartsWith(source, <<"m", "o", "d", "u", "l", "e", ".",
                                                  "e", "x", "p", "o", "r", "t", "s", " ", "=">>)
                declaration == StartsWith(source, <<"c", "o", "n", "s", "t", " ">>
                                                      \o NAMESPACE_OBJECT_EXPORT \o <<" ", "=">>)
            IN  /\ ("module" \in result.added) <=> ~scope
                /\ assignment <=> ~scope
                /\ declaration <=> scope
                /\ result.namespaceExports =
                       (IF scope THEN {"__WEBPACK_NAMESPACE_OBJECT__"} ELSE {})
                /\ ("__webpack_require__.p" \in result.added) <=> ~module.buildInfo.dataUrl
                /\ result.added \subseteq {"module", "__webpack_require__.p"}
                /\ result.runtimeRequirements = result.added
C9_Witness ==
    /\ Generated
    /\ result.status = "return"
    /\ result.mode = "Resource"
    /\ result.context.concatenationScope.type = "object"
    /\ result.added = {"__webpack_require__.p"}

\* C10: a generate call for type "asset" or on an inlined module leaves the
\* filename, asset info and full content hash of the module as they were
C10_Frame ==
    [][(\/ module.buildInfo.dataUrl
        \/ /\ pc = "idle"
           /\ pc' = "idle"
           /\ result'.op = "generate"
           /\ result'.context.type = "asset")
       => WrittenPart(module'.buildInfo) = WrittenPart(module.buildInfo)]_vars
C10_Witness ==
    /\ Generated
    /\ result.mode = "Asset"
    /\ ~module.buildInfo.dataUrl
    /\ FieldsSet = BuildInfoFields

====
